---------------------------- MODULE Spec2Model ----------------------------
(***************************************************************************)
(* A model of the CTI chaincode (smartcontract.go): a Hyperledger Fabric   *)
(* contract that keeps intelligence items, contributor accounts and        *)
(* reviews in the ledger's key-value world state.                          *)
(*                                                                         *)
(* Keys and counter values are byte strings: sequences of character codes, *)
(* compared lexicographically as the ledger's range scan compares them.    *)
(* Stored documents are JSON objects: records whose fields are the json    *)
(* tags of the Go structs.                                                 *)
(*                                                                         *)
(* Every contract function is an operator from (world state, caller,       *)
(* arguments, fault) to a transaction: its error, its return value, the    *)
(* keys it read and the writes it asked for.  The ledger applies the       *)
(* writes of a transaction only when the function returned no error.       *)
(***************************************************************************)
EXTENDS Integers, Sequences, FiniteSets, TLC

VARIABLES
    ledger,     \* the committed world state: key -> stored value
    maxItemID,  \* the largest item ID a committed AddCTIItem has assigned
    maxRevID,   \* the largest review ID a committed AddReviewData has assigned
    pending,    \* endorsed transactions waiting for the ledger's commit
    last        \* the invocation that completed last, and its outcome

vars == <<ledger, maxItemID, maxRevID, pending, last>>

---------------------------------------------------------------------------
\* Bounds of the model.

\* AddCTIItem is explored for IDWindow sequence values after each seed.
IDWindow == 2
\* AddReviewData is explored until the review counter reaches MaxReviews.
MaxReviews == 2
\* At most MaxPending endorsed transactions wait for commit at a time.
MaxPending == 2

\* Counter values the exploration starts from: a ledger on which that many
\* items were added and all of them deleted again (0: the empty ledger).
SeedIDs == {0, 999997}

\* Item levels and subscription levels the invocations are tried with.
Levels == {0, 1}

\* The caller identities (GetClientIdentity().GetID()), "A" and "B".
Identities == {<<65>>, <<66>>}

---------------------------------------------------------------------------
\* Byte strings.

S_CTI == <<67, 84, 73, 95>>                               \* "CTI_"
S_latestID == <<108, 97, 116, 101, 115, 116, 73, 68>>     \* "latestID"
S_Review == <<82, 101, 118, 105, 101, 119>>               \* "Review"
S_UserData == <<85, 115, 101, 114, 68, 97, 116, 97, 95>>  \* "UserData_"
S_Underscore == <<95>>                                    \* "_"

\* Lexicographic order on byte strings, the order of GetStateByRange.
RECURSIVE LexLess(_, _)
LexLess(a, b) ==
    IF b = <<>> THEN FALSE
    ELSE IF a = <<>> THEN TRUE
    ELSE IF a[1] # b[1] THEN a[1] < b[1]
    ELSE LexLess(Tail(a), Tail(b))

\* strconv.Itoa and the %d verb, for n >= 0.
RECURSIVE Itoa(_)
Itoa(n) ==
    IF n < 10 THEN <<48 + n>>
    ELSE Itoa(n \div 10) \o <<48 + (n % 10)>>

IsDigits(s) == s # <<>> /\ \A i \in 1..Len(s) : s[i] >= 48 /\ s[i] <= 57

RECURSIVE DigitsValue(_)
DigitsValue(s) ==
    IF s = <<>> THEN 0
    ELSE 10 * DigitsValue(SubSeq(s, 1, Len(s) - 1)) + (s[Len(s)] - 48)

\* strconv.Atoi on the unsigned decimal strings the contract stores.
Atoi(s) ==
    IF IsDigits(s) THEN [ok |-> TRUE, val |-> DigitsValue(s)]
    ELSE [ok |-> FALSE, val |-> 0]

---------------------------------------------------------------------------
\* Key encoding.

K_latestID == S_latestID                                   \* "latestID"
K_latestID_Prefix(prefix) == S_latestID \o S_Underscore \o prefix
ItemKeyD(n) == S_CTI \o Itoa(n)                            \* Sprintf("CTI_%d", n)
ItemKeyS(id) == S_CTI \o id                                \* Sprintf("CTI_%s", id)
UserKey(user) == S_UserData \o user                        \* Sprintf("UserData_%s", user)
ReviewKey(reviewID) == S_Review \o S_Underscore \o reviewID \* Sprintf("Review_%s", id)
GeneratedID(prefix, n) == prefix \o S_Underscore \o Itoa(n) \* Sprintf("%s_%d", prefix, n)

CTI_RangeStart == S_CTI \o <<48>>                          \* "CTI_0"
CTI_RangeEnd == S_CTI \o <<57, 57, 57, 57, 57, 57>>        \* "CTI_999999"
Review_RangeStart == S_Review \o S_Underscore              \* "Review_"
Review_RangeEnd == S_Review \o S_Underscore \o <<122>>     \* "Review_z"

---------------------------------------------------------------------------
\* The ledger stub as one invocation sees it.

Nil == [nil |-> TRUE]
NoErr == "none"

\* GetState: (nil, error) when the read fails, (nil, nil) for an absent key.
GetState(world, key, failed) ==
    IF failed THEN [err |-> TRUE, found |-> FALSE, val |-> Nil]
    ELSE IF key \in DOMAIN world
         THEN [err |-> FALSE, found |-> TRUE, val |-> world[key]]
         ELSE [err |-> FALSE, found |-> FALSE, val |-> Nil]

\* The keys of world in [startKey, endKey), in lexicographic order.
RangeKeys(world, startKey, endKey) ==
    {k \in DOMAIN world : ~LexLess(k, startKey) /\ LexLess(k, endKey)}

RECURSIVE SortKeys(_)
SortKeys(S) ==
    IF S = {} THEN <<>>
    ELSE LET m == CHOOSE k \in S : \A o \in S \ {k} : LexLess(k, o)
         IN  <<m>> \o SortKeys(S \ {m})

\* GetStateByRange: the values in the range, in key order.
GetStateByRange(world, startKey, endKey) ==
    LET ks == SortKeys(RangeKeys(world, startKey, endKey))
    IN  [i \in 1..Len(ks) |-> world[ks[i]]]

EmptyWrites == [k \in {} |-> Nil]
Put(ws, key, val) == [k \in DOMAIN ws \cup {key} |-> IF k = key THEN val ELSE ws[k]]

\* A transaction: the function's error and return value, the ID it assigned
\* (0: none), the keys it read, the values it put and the keys it deleted.
Tx(err, ret, id, rs, ws, del) ==
    [err |-> err, ret |-> ret, id |-> id, rs |-> rs, ws |-> ws, del |-> del]
Fail(err, rs, ws) == Tx(err, Nil, 0, rs, ws, {})

---------------------------------------------------------------------------
\* JSON documents: a record per struct, its fields named by the json tags.

MarshalCTI(c) ==
    [ID |-> c.ID, Name |-> c.Name, Uploader |-> c.Uploader,
     Timestamp |-> c.Timestamp, CID |-> c.CID, encryptKey |-> c.EncryptKey,
     Points |-> c.Points, Level |-> c.Level]
UnmarshalCTI(j) ==
    [ID |-> j.ID, Name |-> j.Name, Uploader |-> j.Uploader,
     Timestamp |-> j.Timestamp, CID |-> j.CID, EncryptKey |-> j.encryptKey,
     Points |-> j.Points, Level |-> j.Level]

MarshalUser(u) ==
    [ID |-> u.ID, UserLevel |-> u.UserLevel, UploadCount |-> u.UploadCount,
     Points |-> u.Points, Subscribed |-> u.Subscribed, Balance |-> u.Balance]
UnmarshalUser(j) ==
    [ID |-> j.ID, UserLevel |-> j.UserLevel, UploadCount |-> j.UploadCount,
     Points |-> j.Points, Subscribed |-> j.Subscribed, Balance |-> j.Balance]

MarshalReview(r) ==
    [ID |-> r.ID, UserDataID |-> r.UserDataID, CTIDataID |-> r.CTIDataID,
     Accuracy |-> r.Accuracy, Timeliness |-> r.Timeliness,
     Completeness |-> r.Completeness, Consistency |-> r.Consistency,
     ReviewText |-> r.ReviewText]
UnmarshalReview(j) ==
    [ID |-> j.ID, UserDataID |-> j.UserDataID, CTIDataID |-> j.CTIDataID,
     Accuracy |-> j.Accuracy, Timeliness |-> j.Timeliness,
     Completeness |-> j.Completeness, Consistency |-> j.Consistency,
     ReviewText |-> j.ReviewText]

---------------------------------------------------------------------------
\* Item functions.  The fault names the one ledger or identity call of the
\* invocation that fails ("none": no call fails).

\* The sequence value AddCTIItem derives from the "latestID" read.  The read's
\* error is not returned: a failed read leaves idBytes nil, as an absent
\* counter does.
AddCTIItemLatestID(world, fault) ==
    LET g == GetState(world, K_latestID, fault = "counter")
        a == Atoi(g.val)
    IN  IF ~g.found THEN [ok |-> TRUE, val |-> 1]
        ELSE IF ~a.ok THEN [ok |-> FALSE, val |-> 0]
        ELSE [ok |-> TRUE, val |-> a.val + 1]

AddCTIItem(world, caller, a, fault) ==
    LET uploader == caller
        n == AddCTIItemLatestID(world, fault)
        rs == IF fault = "counter" THEN {} ELSE {K_latestID}
        latestID == n.val
        ctiItem == [ID |-> Itoa(latestID), Name |-> a.name, Uploader |-> uploader,
                    Timestamp |-> a.timestamp, CID |-> a.cid,
                    EncryptKey |-> a.encryptKey, Points |-> a.points,
                    Level |-> a.level]
        ws1 == Put(EmptyWrites, ItemKeyD(latestID), MarshalCTI(ctiItem))
        ws2 == Put(ws1, K_latestID, Itoa(latestID))
    IN  IF fault = "identity" THEN Fail("IdentityUnavailable", {}, EmptyWrites)
        ELSE IF ~n.ok THEN Fail("InvalidState", rs, EmptyWrites)
        ELSE IF fault = "put" THEN Fail("LedgerUnavailable", rs, EmptyWrites)
        ELSE IF fault = "putCounter" THEN Fail("LedgerUnavailable", rs, ws1)
        ELSE Tx(NoErr, Nil, latestID, rs, ws2, {})

\* UpdateCTIItem without its check that the item exists.
UpdateCTIItem_NoExistenceCheck(world, caller, id, a, fault) ==
    LET ctiItem == [ID |-> id, Name |-> a.name, Uploader |-> caller,
                    Timestamp |-> a.timestamp, CID |-> a.cid,
                    EncryptKey |-> a.encryptKey, Points |-> a.points,
                    Level |-> a.level]
        rs == IF fault = "read" THEN {} ELSE {ItemKeyS(id)}
    IN  IF fault = "identity" THEN Fail("IdentityUnavailable", {}, EmptyWrites)
        ELSE IF fault = "read" THEN Fail("LedgerUnavailable", rs, EmptyWrites)
        ELSE IF fault = "put" THEN Fail("LedgerUnavailable", rs, EmptyWrites)
        ELSE Tx(NoErr, Nil, 0, rs,
                Put(EmptyWrites, ItemKeyS(id), MarshalCTI(ctiItem)), {})

\* UpdateCTIItem keeping the Uploader of the stored record.
UpdateCTIItem_KeepsUploader(world, caller, id, a, fault) ==
    LET g == GetState(world, ItemKeyS(id), fault = "read")
        rs == IF fault = "read" THEN {} ELSE {ItemKeyS(id)}
        ctiItem == [ID |-> id, Name |-> a.name,
                    Uploader |-> IF g.found THEN UnmarshalCTI(g.val).Uploader
                                 ELSE caller,
                    Timestamp |-> a.timestamp, CID |-> a.cid,
                    EncryptKey |-> a.encryptKey, Points |-> a.points,
                    Level |-> a.level]
    IN  IF fault = "identity" THEN Fail("IdentityUnavailable", {}, EmptyWrites)
        ELSE IF g.err THEN Fail("LedgerUnavailable", rs, EmptyWrites)
        ELSE IF ~g.found THEN Fail("NotFound", rs, EmptyWrites)
        ELSE IF fault = "put" THEN Fail("LedgerUnavailable", rs, EmptyWrites)
        ELSE Tx(NoErr, Nil, 0, rs,
                Put(EmptyWrites, ItemKeyS(id), MarshalCTI(ctiItem)), {})

UpdateCTIItem(world, caller, id, a, fault) ==
    LET uploader == caller
        g == GetState(world, ItemKeyS(id), fault = "read")
        rs == IF fault = "read" THEN {} ELSE {ItemKeyS(id)}
        ctiItem == [ID |-> id, Name |-> a.name, Uploader |-> uploader,
                    Timestamp |-> a.timestamp, CID |-> a.cid,
                    EncryptKey |-> a.encryptKey, Points |-> a.points,
                    Level |-> a.level]
    IN  IF fault = "identity" THEN Fail("IdentityUnavailable", {}, EmptyWrites)
        ELSE IF g.err THEN Fail("LedgerUnavailable", rs, EmptyWrites)
        ELSE IF ~g.found THEN Fail("NotFound", rs, EmptyWrites)
        ELSE IF fault = "put" THEN Fail("LedgerUnavailable", rs, EmptyWrites)
        ELSE Tx(NoErr, Nil, 0, rs,
                Put(EmptyWrites, ItemKeyS(id), MarshalCTI(ctiItem)), {})

GetCTIItem(world, n, fault) ==
    LET g == GetState(world, ItemKeyD(n), fault = "read")
        rs == IF fault = "read" THEN {} ELSE {ItemKeyD(n)}
    IN  IF g.err THEN Fail("LedgerUnavailable", rs, EmptyWrites)
        ELSE IF ~g.found THEN Fail("NotFound", rs, EmptyWrites)
        ELSE Tx(NoErr, UnmarshalCTI(g.val), 0, rs, EmptyWrites, {})

GetAllCTIItems(world, fault) ==
    LET vals == GetStateByRange(world, CTI_RangeStart, CTI_RangeEnd)
        rs == RangeKeys(world, CTI_RangeStart, CTI_RangeEnd)
    IN  IF fault = "scan" THEN Fail("LedgerUnavailable", {}, EmptyWrites)
        ELSE Tx(NoErr, [i \in 1..Len(vals) |-> UnmarshalCTI(vals[i])], 0, rs,
                EmptyWrites, {})

\* DeleteCTIItemByID deleting the reviews of the item with it.
DeleteCTIItemByID_Cascade(world, id, fault) ==
    LET g == GetState(world, ItemKeyS(id), fault = "read")
        rs == IF fault = "read" THEN {} ELSE {ItemKeyS(id)}
        reviews == {k \in RangeKeys(world, Review_RangeStart, Review_RangeEnd) :
                       UnmarshalReview(world[k]).CTIDataID = id}
    IN  IF g.err THEN Fail("LedgerUnavailable", rs, EmptyWrites)
        ELSE IF ~g.found THEN Fail("NotFound", rs, EmptyWrites)
        ELSE IF fault = "del" THEN Fail("LedgerUnavailable", rs, EmptyWrites)
        ELSE Tx(NoErr, Nil, 0, rs, EmptyWrites, {ItemKeyS(id)} \cup reviews)

\* DeleteCTIItemByID without its check that the item exists.
DeleteCTIItemByID_Idempotent(world, id, fault) ==
    LET rs == IF fault = "read" THEN {} ELSE {ItemKeyS(id)}
    IN  IF fault = "read" THEN Fail("LedgerUnavailable", rs, EmptyWrites)
        ELSE IF fault = "del" THEN Fail("LedgerUnavailable", rs, EmptyWrites)
        ELSE Tx(NoErr, Nil, 0, rs, EmptyWrites, {ItemKeyS(id)})

DeleteCTIItemByID(world, id, fault) ==
    LET g == GetState(world, ItemKeyS(id), fault = "read")
        rs == IF fault = "read" THEN {} ELSE {ItemKeyS(id)}
    IN  IF g.err THEN Fail("LedgerUnavailable", rs, EmptyWrites)
        ELSE IF ~g.found THEN Fail("NotFound", rs, EmptyWrites)
        ELSE IF fault = "del" THEN Fail("LedgerUnavailable", rs, EmptyWrites)
        ELSE Tx(NoErr, Nil, 0, rs, EmptyWrites, {ItemKeyS(id)})

---------------------------------------------------------------------------
\* Account functions.

\* AddUserData storing the record under the key of one fixed identity.
AddUserData_FixedUser(world, caller, a, fault) ==
    LET userData == [ID |-> caller, UserLevel |-> 0, UploadCount |-> a.uploadCount,
                     Points |-> a.points, Subscribed |-> a.subscribed,
                     Balance |-> a.balance]
    IN  IF fault = "identity" THEN Fail("IdentityUnavailable", {}, EmptyWrites)
        ELSE IF fault = "put" THEN Fail("LedgerUnavailable", {}, EmptyWrites)
        ELSE Tx(NoErr, Nil, 0, {},
                Put(EmptyWrites, UserKey(<<65>>), MarshalUser(userData)), {})

AddUserData(world, caller, a, fault) ==
    LET user == caller
        userData == [ID |-> user, UserLevel |-> 0, UploadCount |-> a.uploadCount,
                     Points |-> a.points, Subscribed |-> a.subscribed,
                     Balance |-> a.balance]
    IN  IF fault = "identity" THEN Fail("IdentityUnavailable", {}, EmptyWrites)
        ELSE IF fault = "put" THEN Fail("LedgerUnavailable", {}, EmptyWrites)
        ELSE Tx(NoErr, Nil, 0, {},
                Put(EmptyWrites, UserKey(user), MarshalUser(userData)), {})

\* The lookup by a user ID the caller passes in.
GetUserDataOld(world, user, fault) ==
    LET g == GetState(world, UserKey(user), fault = "read")
        rs == IF fault = "read" THEN {} ELSE {UserKey(user)}
    IN  IF g.err THEN Fail("LedgerUnavailable", rs, EmptyWrites)
        ELSE IF ~g.found THEN Fail("NotFound", rs, EmptyWrites)
        ELSE Tx(NoErr, UnmarshalUser(g.val), 0, rs, EmptyWrites, {})

\* GetUserData returning the empty record without storing it.
GetUserData_NotPersisted(world, caller, fault) ==
    LET g == GetState(world, UserKey(caller), fault = "read")
        rs == IF fault = "read" THEN {} ELSE {UserKey(caller)}
        userData == [ID |-> caller, UserLevel |-> 0, UploadCount |-> 0,
                     Points |-> 0, Subscribed |-> 0, Balance |-> 0]
    IN  IF fault = "identity" THEN Fail("IdentityUnavailable", {}, EmptyWrites)
        ELSE IF g.err THEN Fail("LedgerUnavailable", rs, EmptyWrites)
        ELSE IF ~g.found THEN Tx(NoErr, userData, 0, rs, EmptyWrites, {})
        ELSE Tx(NoErr, UnmarshalUser(g.val), 0, rs, EmptyWrites, {})

\* The lookup by the caller's identity, creating an empty record if none.
GetUserData(world, caller, fault) ==
    LET peerID == caller
        g == GetState(world, UserKey(peerID), fault = "read")
        rs == IF fault = "read" THEN {} ELSE {UserKey(peerID)}
        userData == [ID |-> peerID, UserLevel |-> 0, UploadCount |-> 0,
                     Points |-> 0, Subscribed |-> 0, Balance |-> 0]
    IN  IF fault = "identity" THEN Fail("IdentityUnavailable", {}, EmptyWrites)
        ELSE IF g.err THEN Fail("LedgerUnavailable", rs, EmptyWrites)
        ELSE IF ~g.found
             THEN IF fault = "put" THEN Fail("LedgerUnavailable", rs, EmptyWrites)
                  ELSE Tx(NoErr, userData, 0, rs,
                          Put(EmptyWrites, UserKey(peerID), MarshalUser(userData)),
                          {})
        ELSE Tx(NoErr, UnmarshalUser(g.val), 0, rs, EmptyWrites, {})

\* UpdateUserData creating the record of a caller that has none.
UpdateUserData_CreatesIfAbsent(world, caller, a, fault) ==
    LET g == GetState(world, UserKey(caller), fault = "read")
        rs == IF fault = "read" THEN {} ELSE {UserKey(caller)}
        existingUserData ==
            IF g.found THEN UnmarshalUser(g.val)
            ELSE [ID |-> caller, UserLevel |-> 0, UploadCount |-> 0, Points |-> 0,
                  Subscribed |-> 0, Balance |-> 0]
        updated == [existingUserData EXCEPT !.UploadCount = a.uploadCount,
                                            !.Points = a.points,
                                            !.Subscribed = a.subscribed,
                                            !.Balance = a.balance]
    IN  IF fault = "identity" THEN Fail("IdentityUnavailable", {}, EmptyWrites)
        ELSE IF g.err THEN Fail("LedgerUnavailable", rs, EmptyWrites)
        ELSE IF fault = "put" THEN Fail("LedgerUnavailable", rs, EmptyWrites)
        ELSE Tx(NoErr, Nil, 0, rs,
                Put(EmptyWrites, UserKey(caller), MarshalUser(updated)), {})

UpdateUserData(world, caller, a, fault) ==
    LET peerID == caller
        g == GetState(world, UserKey(peerID), fault = "read")
        rs == IF fault = "read" THEN {} ELSE {UserKey(peerID)}
        existingUserData == UnmarshalUser(g.val)
        updated == [existingUserData EXCEPT !.UploadCount = a.uploadCount,
                                            !.Points = a.points,
                                            !.Subscribed = a.subscribed,
                                            !.Balance = a.balance]
    IN  IF fault = "identity" THEN Fail("IdentityUnavailable", {}, EmptyWrites)
        ELSE IF g.err THEN Fail("LedgerUnavailable", rs, EmptyWrites)
        ELSE IF ~g.found THEN Fail("NotFound", rs, EmptyWrites)
        ELSE IF fault = "put" THEN Fail("LedgerUnavailable", rs, EmptyWrites)
        ELSE Tx(NoErr, Nil, 0, rs,
                Put(EmptyWrites, UserKey(peerID), MarshalUser(updated)), {})

---------------------------------------------------------------------------
\* Review functions.

\* generateUniqueID without the increment of the stored value.
generateUniqueID_NoIncrement(world, prefix, fault) ==
    LET key == K_latestID_Prefix(prefix)
        g == GetState(world, key, fault = "counter")
        rs == IF fault = "counter" THEN {} ELSE {key}
        a == Atoi(g.val)
        latestID == IF ~g.found THEN 1 ELSE a.val
    IN  IF g.err THEN Fail("LedgerUnavailable", rs, EmptyWrites)
        ELSE IF g.found /\ ~a.ok THEN Fail("InvalidState", rs, EmptyWrites)
        ELSE IF fault = "putCounter" THEN Fail("LedgerUnavailable", rs, EmptyWrites)
        ELSE Tx(NoErr, GeneratedID(prefix, latestID), latestID, rs,
                Put(EmptyWrites, key, Itoa(latestID)), {})

\* Returns the new sequence value n of the prefix (the generated ID is
\* GeneratedID(prefix, n)), having put it back under "latestID_<prefix>".
generateUniqueID(world, prefix, fault) ==
    LET key == K_latestID_Prefix(prefix)
        g == GetState(world, key, fault = "counter")
        rs == IF fault = "counter" THEN {} ELSE {key}
        a == Atoi(g.val)
        latestID == IF ~g.found THEN 1 ELSE a.val + 1
    IN  IF g.err THEN Fail("LedgerUnavailable", rs, EmptyWrites)
        ELSE IF g.found /\ ~a.ok THEN Fail("InvalidState", rs, EmptyWrites)
        ELSE IF fault = "putCounter" THEN Fail("LedgerUnavailable", rs, EmptyWrites)
        ELSE Tx(NoErr, GeneratedID(prefix, latestID), latestID, rs,
                Put(EmptyWrites, key, Itoa(latestID)), {})

\* AddReviewData generating the review ID before it looks for the item.
AddReviewData_IDBeforeCheck(world, caller, ctiDataID, a, fault) ==
    LET g == GetState(world, ItemKeyS(ctiDataID), fault = "read")
        rs1 == IF fault = "read" THEN {} ELSE {ItemKeyS(ctiDataID)}
        u == generateUniqueID(world, S_Review, fault)
        review == [ID |-> u.ret, UserDataID |-> caller, CTIDataID |-> ctiDataID,
                   Accuracy |-> a.accuracy, Timeliness |-> a.timeliness,
                   Completeness |-> a.completeness,
                   Consistency |-> a.consistency, ReviewText |-> a.reviewText]
    IN  IF fault = "identity" THEN Fail("IdentityUnavailable", {}, EmptyWrites)
        ELSE IF u.err # NoErr THEN Fail(u.err, u.rs, u.ws)
        ELSE IF g.err THEN Fail("LedgerUnavailable", rs1 \cup u.rs, u.ws)
        ELSE IF ~g.found THEN Fail("NotFound", rs1 \cup u.rs, u.ws)
        ELSE IF fault = "put" THEN Fail("LedgerUnavailable", rs1 \cup u.rs, u.ws)
        ELSE Tx(NoErr, Nil, u.id, rs1 \cup u.rs,
                Put(u.ws, ReviewKey(u.ret), MarshalReview(review)), {})

AddReviewData(world, caller, ctiDataID, a, fault) ==
    LET peerID == caller
        g == GetState(world, ItemKeyS(ctiDataID), fault = "read")
        rs1 == IF fault = "read" THEN {} ELSE {ItemKeyS(ctiDataID)}
        u == generateUniqueID(world, S_Review, fault)
        reviewID == u.ret
        review == [ID |-> reviewID, UserDataID |-> peerID, CTIDataID |-> ctiDataID,
                   Accuracy |-> a.accuracy, Timeliness |-> a.timeliness,
                   Completeness |-> a.completeness,
                   Consistency |-> a.consistency, ReviewText |-> a.reviewText]
    IN  IF fault = "identity" THEN Fail("IdentityUnavailable", {}, EmptyWrites)
        ELSE IF g.err THEN Fail("LedgerUnavailable", rs1, EmptyWrites)
        ELSE IF ~g.found THEN Fail("NotFound", rs1, EmptyWrites)
        ELSE IF u.err # NoErr THEN Fail(u.err, rs1 \cup u.rs, u.ws)
        ELSE IF fault = "put" THEN Fail("LedgerUnavailable", rs1 \cup u.rs, u.ws)
        ELSE Tx(NoErr, Nil, u.id, rs1 \cup u.rs,
                Put(u.ws, ReviewKey(reviewID), MarshalReview(review)), {})

\* GetAllReviewData with a range that ends at the second generated ID.
GetAllReviewData_ShortRange(world, fault) ==
    LET endKey == ReviewKey(GeneratedID(S_Review, 2))
        vals == GetStateByRange(world, Review_RangeStart, endKey)
        rs == RangeKeys(world, Review_RangeStart, endKey)
    IN  IF fault = "scan" THEN Fail("LedgerUnavailable", {}, EmptyWrites)
        ELSE Tx(NoErr, [i \in 1..Len(vals) |-> UnmarshalReview(vals[i])], 0, rs,
                EmptyWrites, {})

GetAllReviewData(world, fault) ==
    LET vals == GetStateByRange(world, Review_RangeStart, Review_RangeEnd)
        rs == RangeKeys(world, Review_RangeStart, Review_RangeEnd)
    IN  IF fault = "scan" THEN Fail("LedgerUnavailable", {}, EmptyWrites)
        ELSE Tx(NoErr, [i \in 1..Len(vals) |-> UnmarshalReview(vals[i])], 0, rs,
                EmptyWrites, {})

\* GetReviewDataByCTIDataID without the filter.
GetReviewDataByCTIDataID_Unfiltered(world, ctiDataID, fault) ==
    LET all == GetAllReviewData(world, fault)
    IN  IF all.err # NoErr THEN Fail(all.err, all.rs, EmptyWrites)
        ELSE Tx(NoErr, all.ret, 0, all.rs, EmptyWrites, {})

GetReviewDataByCTIDataID(world, ctiDataID, fault) ==
    LET all == GetAllReviewData(world, fault)
        allReviewData == all.ret
    IN  IF all.err # NoErr THEN Fail(all.err, all.rs, EmptyWrites)
        ELSE Tx(NoErr,
                SelectSeq(allReviewData, LAMBDA review : review.CTIDataID = ctiDataID),
                0, all.rs, EmptyWrites, {})

\* The scan of the items, then the caller's account (created if none), then
\* the filter by level.
GetCTIItemsFilteredBySubscriptionLevel(world, caller, fault) ==
    LET all == GetAllCTIItems(world, fault)
        allCTIItems == all.ret
        acct == GetUserData(world, caller, fault)
        userData == acct.ret
    IN  IF all.err # NoErr THEN Fail(all.err, all.rs, EmptyWrites)
        ELSE IF acct.err # NoErr THEN Fail(acct.err, all.rs \cup acct.rs, acct.ws)
        ELSE Tx(NoErr,
                SelectSeq(allCTIItems,
                          LAMBDA ctiItem : ctiItem.Level <= userData.Subscribed),
                0, all.rs \cup acct.rs, acct.ws, {})

---------------------------------------------------------------------------
\* The ledger: commit of a transaction, and the inputs of the exploration.

\* The world state after the writes and deletes of tx.
Apply(world, tx) ==
    [k \in (DOMAIN world \cup DOMAIN tx.ws) \ tx.del |->
        IF k \in DOMAIN tx.ws THEN tx.ws[k] ELSE world[k]]

\* A function that returns an error commits nothing.
Commit(world, tx) == IF tx.err = NoErr THEN Apply(world, tx) ELSE world

Written(tx) == IF tx.err = NoErr THEN DOMAIN tx.ws \cup tx.del ELSE {}

\* An endorsed transaction is stale once a key it read has been written.
Invalidate(pend, tx) ==
    [i \in 1..Len(pend) |->
        [pend[i] EXCEPT !.stale = @ \/ (pend[i].tx.rs \cap Written(tx) # {})]]

Anyone == <<>>   \* the caller of a function that does not ask who calls

ItemArgs ==
    {[name |-> "n", timestamp |-> 1, cid |-> "c", encryptKey |-> "k",
      points |-> 10 + l, level |-> l] : l \in Levels}
AcctArgs ==
    {[uploadCount |-> 4 * s, points |-> 2 * s, subscribed |-> s,
      balance |-> 3 * s] : s \in Levels}
ReviewArgs ==
    {[accuracy |-> 1, timeliness |-> 2, completeness |-> 3, consistency |-> 4,
      reviewText |-> "t"]}

WindowOf(seed) == (seed + 1)..(seed + IDWindow)
StoredItemKeys(world) ==
    {k \in DOMAIN world : Len(k) > Len(S_CTI) /\ SubSeq(k, 1, Len(S_CTI)) = S_CTI}
\* The seeds whose window holds every stored item.
Seeds(world) ==
    {s \in SeedIDs : StoredItemKeys(world) \subseteq {ItemKeyD(n) : n \in WindowOf(s)}}
\* The item IDs the invocations are tried with.
ArgIDs(world) == UNION {WindowOf(s) : s \in Seeds(world)}
\* The bound on AddCTIItem: the new ID and the stored items lie in one window.
InWindow(world, n) == \E s \in Seeds(world) : n \in WindowOf(s)

\* What an invocation leaves behind: its inputs, the error and value it
\* returned, the sequence value it assigned and the keys it changed.
Outcome(op, caller, arg, fault, tx) ==
    [op |-> op, caller |-> caller, arg |-> arg, fault |-> fault,
     err |-> tx.err, ret |-> tx.ret, id |-> tx.id, wrote |-> Written(tx)]

\* The review records the ledger holds.
StoredReviewKeys(world) ==
    {k \in DOMAIN world :
        Len(k) > Len(S_Review) + 1
        /\ SubSeq(k, 1, Len(S_Review) + 1) = S_Review \o S_Underscore}
StoredReviews(world) == {UnmarshalReview(world[k]) : k \in StoredReviewKeys(world)}
\* The reviews stored for an item ID.
ReviewsOf(world, id) == {r \in StoredReviews(world) : r.CTIDataID = id}

\* One invocation, submitted and committed on its own.
Invoke(op, caller, arg, fault, tx) ==
    /\ ledger' = Commit(ledger, tx)
    /\ pending' = Invalidate(pending, tx)
    /\ last' = Outcome(op, caller, arg, fault, tx)

\* The ledgers the explorations start from, each one the result of the
\* invocations named.
EmptyLedger == EmptyWrites
\* A ledger whose item counter stands at seed and that holds no item: seed
\* AddCTIItem calls, then DeleteCTIItemByID of each item.
SeedLedger(seed) ==
    IF seed = 0 THEN EmptyLedger ELSE Put(EmptyLedger, K_latestID, Itoa(seed))
IdA == <<65>>
IdB == <<66>>
ArgLevel0 == CHOOSE x \in ItemArgs : x.level = 0
\* AddCTIItem by A, then AddReviewData on item "1" by B, then GetUserData by B.
PopulatedLedger ==
    LET r == CHOOSE x \in ReviewArgs : TRUE
        w1 == Commit(EmptyLedger, AddCTIItem(EmptyLedger, IdA, ArgLevel0, "none"))
        w2 == Commit(w1, AddReviewData(w1, IdB, Itoa(1), r, "none"))
    IN  Commit(w2, GetUserData(w2, IdB, "none"))

Start(world, itemID, revID) ==
    /\ ledger = world
    /\ maxItemID = itemID
    /\ maxRevID = revID
    /\ pending = <<>>
    /\ last = Outcome("init", Anyone, Nil, "none", Fail(NoErr, {}, EmptyWrites))

\* An invocation with a fault is tried with one choice of its other inputs.
Tried(S, x, fault) == IF fault = "none" THEN TRUE ELSE x = (CHOOSE y \in S : TRUE)

DoAddCTIItem(callers, args) ==
    \E caller \in callers, a \in args,
       fault \in {"none", "identity", "counter", "put", "putCounter"} :
        LET tx == AddCTIItem(ledger, caller, a, fault) IN
        /\ Tried(callers, caller, fault) /\ Tried(args, a, fault)
        /\ tx.err = NoErr => InWindow(ledger, tx.id)
        /\ Invoke("AddCTIItem", caller, a, fault, tx)
        /\ maxItemID' = IF tx.err = NoErr /\ tx.id > maxItemID THEN tx.id
                        ELSE maxItemID
        /\ UNCHANGED maxRevID

DoUpdateCTIItem(callers, args) ==
    \E caller \in callers, n \in ArgIDs(ledger), a \in args,
       fault \in {"none", "identity", "read", "put"} :
        /\ Tried(callers, caller, fault) /\ Tried(args, a, fault)
        /\ Tried(ArgIDs(ledger), n, fault)
        /\ Invoke("UpdateCTIItem", caller, [id |-> Itoa(n), a |-> a], fault,
                  UpdateCTIItem(ledger, caller, Itoa(n), a, fault))
        /\ UNCHANGED <<maxItemID, maxRevID>>

DoGetCTIItem ==
    \E n \in ArgIDs(ledger), fault \in {"none", "read"} :
        /\ Tried(ArgIDs(ledger), n, fault)
        /\ Invoke("GetCTIItem", Anyone, n, fault, GetCTIItem(ledger, n, fault))
        /\ UNCHANGED <<maxItemID, maxRevID>>

DoGetAllCTIItems ==
    \E fault \in {"none", "scan"} :
        /\ Invoke("GetAllCTIItems", Anyone, Nil, fault, GetAllCTIItems(ledger, fault))
        /\ UNCHANGED <<maxItemID, maxRevID>>

DoDeleteCTIItemByID ==
    \E n \in ArgIDs(ledger), fault \in {"none", "read", "del"} :
        /\ fault = "read" => Tried(ArgIDs(ledger), n, fault)
        /\ Invoke("DeleteCTIItemByID", Anyone, Itoa(n), fault,
                  DeleteCTIItemByID(ledger, Itoa(n), fault))
        /\ UNCHANGED <<maxItemID, maxRevID>>

DoAddUserData(callers) ==
    \E caller \in callers, a \in AcctArgs, fault \in {"none", "identity", "put"} :
        /\ Tried(callers, caller, fault) /\ Tried(AcctArgs, a, fault)
        /\ Invoke("AddUserData", caller, a, fault,
                  AddUserData(ledger, caller, a, fault))
        /\ UNCHANGED <<maxItemID, maxRevID>>

DoGetUserDataOld(callers) ==
    \E caller \in callers, user \in Identities, fault \in {"none", "read"} :
        /\ Tried(callers, caller, fault) /\ Tried(Identities, user, fault)
        /\ Invoke("GetUserDataOld", caller, user, fault,
                  GetUserDataOld(ledger, user, fault))
        /\ UNCHANGED <<maxItemID, maxRevID>>

DoGetUserData(callers) ==
    \E caller \in callers, fault \in {"none", "identity", "read", "put"} :
        /\ Tried(callers, caller, fault)
        /\ Invoke("GetUserData", caller, Nil, fault,
                  GetUserData(ledger, caller, fault))
        /\ UNCHANGED <<maxItemID, maxRevID>>

DoUpdateUserData(callers) ==
    \E caller \in callers, a \in AcctArgs,
       fault \in {"none", "identity", "read", "put"} :
        /\ Tried(callers, caller, fault) /\ Tried(AcctArgs, a, fault)
        /\ Invoke("UpdateUserData", caller, a, fault,
                  UpdateUserData(ledger, caller, a, fault))
        /\ UNCHANGED <<maxItemID, maxRevID>>

DoAddReviewData(callers) ==
    \E caller \in callers, n \in ArgIDs(ledger), a \in ReviewArgs,
       fault \in {"none", "identity", "read", "counter", "putCounter", "put"} :
        LET tx == AddReviewData(ledger, caller, Itoa(n), a, fault) IN
        /\ Tried(callers, caller, fault)
        /\ fault \in {"identity", "read"} => Tried(ArgIDs(ledger), n, fault)
        /\ tx.err = NoErr => tx.id <= MaxReviews
        /\ Invoke("AddReviewData", caller, Itoa(n), fault, tx)
        /\ maxRevID' = IF tx.err = NoErr /\ tx.id > maxRevID THEN tx.id
                       ELSE maxRevID
        /\ UNCHANGED maxItemID

DoGetAllReviewData ==
    \E fault \in {"none", "scan"} :
        /\ Invoke("GetAllReviewData", Anyone, Nil, fault,
                  GetAllReviewData(ledger, fault))
        /\ UNCHANGED <<maxItemID, maxRevID>>

DoGetReviewDataByCTIDataID ==
    \E n \in ArgIDs(ledger), fault \in {"none", "scan"} :
        /\ Tried(ArgIDs(ledger), n, fault)
        /\ Invoke("GetReviewDataByCTIDataID", Anyone, Itoa(n), fault,
                  GetReviewDataByCTIDataID(ledger, Itoa(n), fault))
        /\ UNCHANGED <<maxItemID, maxRevID>>

DoGetCTIItemsFilteredBySubscriptionLevel(callers) ==
    \E caller \in callers, fault \in {"none", "scan", "identity", "read", "put"} :
        /\ Tried(callers, caller, fault)
        /\ Invoke("GetCTIItemsFilteredBySubscriptionLevel", caller, Nil, fault,
                  GetCTIItemsFilteredBySubscriptionLevel(ledger, caller, fault))
        /\ UNCHANGED <<maxItemID, maxRevID>>

---------------------------------------------------------------------------
\* SpecItems: the item functions, from the empty ledger and from a ledger
\* that holds a reviewed item and an account.

InitItems == Start(EmptyLedger, 0, 0) \/ Start(PopulatedLedger, 1, 1)

NextItems ==
    \/ DoAddCTIItem(Identities, ItemArgs)
    \/ DoUpdateCTIItem(Identities, ItemArgs)
    \/ DoGetCTIItem
    \/ DoGetAllCTIItems
    \/ DoDeleteCTIItemByID

SpecItems == InitItems /\ [][NextItems]_vars

---------------------------------------------------------------------------
\* SpecAccounts: the account functions and the scans of the items, with the
\* items of one uploader, from the empty ledger and from a ledger whose item
\* counter stands at the larger seed.

InitAccounts ==
    \E seed \in SeedIDs : Start(SeedLedger(seed), seed, 0)

NextAccounts ==
    \/ DoAddCTIItem({IdA}, ItemArgs)
    \/ DoDeleteCTIItemByID
    \/ DoGetAllCTIItems
    \/ DoAddUserData(Identities)
    \/ DoGetUserDataOld(Identities)
    \/ DoGetUserData(Identities)
    \/ DoUpdateUserData(Identities)
    \/ DoGetCTIItemsFilteredBySubscriptionLevel(Identities)

SpecAccounts == InitAccounts /\ [][NextAccounts]_vars

---------------------------------------------------------------------------
\* SpecReviews: the review functions, with one reviewer and the items of one
\* uploader and one level, from the empty ledger.

InitReviews == Start(EmptyLedger, 0, 0)

NextReviews ==
    \/ DoAddCTIItem({IdA}, {ArgLevel0})
    \/ DoDeleteCTIItemByID
    \/ DoGetCTIItem
    \/ DoAddReviewData({IdB})
    \/ DoGetAllReviewData
    \/ DoGetReviewDataByCTIDataID

SpecReviews == InitReviews /\ [][NextReviews]_vars

---------------------------------------------------------------------------
\* SpecContract: the functions of all three kinds together, with one
\* uploader of one kind of item, one reviewer, and the accounts of both, from
\* a ledger that holds a reviewed item and an account.

InitContract == Start(PopulatedLedger, 1, 1)

NextContract ==
    \/ DoAddCTIItem({IdA}, {ArgLevel0})
    \/ DoUpdateCTIItem({IdA}, {ArgLevel0})
    \/ DoGetCTIItem
    \/ DoDeleteCTIItemByID
    \/ DoAddUserData({IdB})
    \/ DoGetUserDataOld({IdA})
    \/ DoGetUserData(Identities)
    \/ DoUpdateUserData({IdA})
    \/ DoAddReviewData({IdB})
    \/ DoGetCTIItemsFilteredBySubscriptionLevel(Identities)

SpecContract == InitContract /\ [][NextContract]_vars

---------------------------------------------------------------------------
\* SpecConc: AddCTIItem and AddReviewData simulated against the committed
\* state and committed later, in any order.  At commit the ledger rejects a
\* transaction that read a key written since.

Endorsed(op, caller, arg, fault, tx) ==
    [op |-> op, caller |-> caller, arg |-> arg, fault |-> fault, tx |-> tx,
     stale |-> FALSE]

Remove(seq, i) == SubSeq(seq, 1, i - 1) \o SubSeq(seq, i + 1, Len(seq))

EndorseAddCTIItem ==
    \E caller \in {IdA}, a \in {ArgLevel0}, fault \in {"none", "counter"} :
        LET tx == AddCTIItem(ledger, caller, a, fault) IN
        /\ Len(pending) < MaxPending
        /\ tx.err = NoErr /\ InWindow(ledger, tx.id)
        /\ pending' = Append(pending, Endorsed("AddCTIItem", caller, a, fault, tx))
        /\ UNCHANGED <<ledger, maxItemID, maxRevID, last>>

EndorseAddReviewData ==
    \E caller \in {IdB}, n \in ArgIDs(ledger), a \in ReviewArgs :
        LET tx == AddReviewData(ledger, caller, Itoa(n), a, "none") IN
        /\ Len(pending) < MaxPending
        /\ tx.err = NoErr /\ tx.id <= MaxReviews
        /\ pending' = Append(pending,
                             Endorsed("AddReviewData", caller, Itoa(n), "none", tx))
        /\ UNCHANGED <<ledger, maxItemID, maxRevID, last>>

CommitPending ==
    \E i \in 1..Len(pending) :
        LET p == pending[i]
            tx == IF p.stale THEN Fail("ReadConflict", p.tx.rs, EmptyWrites)
                  ELSE p.tx
        IN  /\ ledger' = Commit(ledger, tx)
            /\ pending' = Invalidate(Remove(pending, i), tx)
            /\ last' = Outcome(p.op, p.caller, p.arg, p.fault, tx)
            /\ maxItemID' = IF p.op = "AddCTIItem" /\ tx.id > maxItemID THEN tx.id
                            ELSE maxItemID
            /\ maxRevID' = IF p.op = "AddReviewData" /\ tx.id > maxRevID THEN tx.id
                           ELSE maxRevID

InitConc == Start(EmptyLedger, 0, 0)

NextConc ==
    \/ EndorseAddCTIItem
    \/ EndorseAddReviewData
    \/ CommitPending

SpecConc == InitConc /\ [][NextConc]_vars

---------------------------------------------------------------------------
\* Properties.

\* The value of a sequence counter: 0 while its key is absent.
CounterValue(world, key) == IF key \in DOMAIN world THEN Atoi(world[key]).val ELSE 0
ItemCounter(world) == CounterValue(world, K_latestID)
ReviewCounter(world) == CounterValue(world, K_latestID_Prefix(S_Review))

\* The elements of a sequence.
Elems(seq) == {seq[i] : i \in 1..Len(seq)}

\* The item records the ledger holds.
StoredItems(world) == {UnmarshalCTI(world[k]) : k \in StoredItemKeys(world)}

\* C1: every AddCTIItem that succeeds assigns an ID larger than every ID an
\* earlier AddCTIItem assigned, so the assigned IDs are strictly increasing and
\* pairwise distinct.
C1_AssignedIDsIncrease ==
    [][(last'.op = "AddCTIItem" /\ last'.err = NoErr) => last'.id > maxItemID]_vars

\* C2: an AddCTIItem or AddReviewData whose read of the counter fails returns
\* LedgerUnavailable, assigns no ID and changes nothing in the ledger.
C2_CounterReadFailureReturned ==
    [][(last'.op \in {"AddCTIItem", "AddReviewData"} /\ last'.fault = "counter")
          => /\ last'.err = "LedgerUnavailable"
             /\ last'.id = 0
             /\ ledger' = ledger]_vars

\* C3: GetAllCTIItems returns exactly the item records the ledger holds: every
\* stored item, and nothing that is not a stored item.
C3_ScanReturnsAllItems ==
    (last.op = "GetAllCTIItems" /\ last.err = NoErr)
        => /\ Elems(last.ret) = StoredItems(ledger)
           /\ Len(last.ret) = Cardinality(StoredItemKeys(ledger))

\* C4: an account record read by GetUserData, by GetUserDataOld or inside
\* GetCTIItemsFilteredBySubscriptionLevel is the record of the caller.
C4_AccountReadIsCallers ==
    /\ (last.op \in {"GetUserData", "GetUserDataOld"} /\ last.err = NoErr)
          => last.ret.ID = last.caller
    /\ (last.op = "GetCTIItemsFilteredBySubscriptionLevel" /\ last.err = NoErr)
          => GetUserData(ledger, last.caller, "none").ret.ID = last.caller

\* C5: neither sequence counter ever decreases, DeleteCTIItemByID changes
\* neither, and no AddCTIItem assigns an ID that was assigned before.
C5_CountersNeverDecrease ==
    [][/\ ItemCounter(ledger') >= ItemCounter(ledger)
       /\ ReviewCounter(ledger') >= ReviewCounter(ledger)
       /\ last'.op = "DeleteCTIItemByID"
            => /\ ItemCounter(ledger') = ItemCounter(ledger)
               /\ ReviewCounter(ledger') = ReviewCounter(ledger)
       /\ (last'.op = "AddCTIItem" /\ last'.err = NoErr) => last'.id > maxItemID]_vars

\* C6: of the AddCTIItem (and of the AddReviewData) transactions simulated
\* concurrently and committed under read-set validation, each one committed
\* carries a sequence value larger than every value committed before it for
\* its category, so no two committed ones carry the same value.
C6_CommittedValuesIncrease ==
    [][(Len(pending') < Len(pending) /\ last'.err = NoErr) =>
          /\ last'.op = "AddCTIItem" => last'.id > maxItemID
          /\ last'.op = "AddReviewData" => last'.id > maxRevID]_vars

\* The review record stored under the generated ID of sequence value n.
StoredReview(world, n) == UnmarshalReview(world[ReviewKey(GeneratedID(S_Review, n))])

\* C7: AddReviewData on an item ID under which no item is stored fails and
\* stores nothing, with NotFound when its identity and ledger calls succeed;
\* on a stored item it then succeeds and stores, under a key that held
\* nothing, a review whose ID differs from the ID of every earlier review.
C7_AddReviewNeedsItemAndIsFresh ==
    [][last'.op = "AddReviewData" =>
        LET X == last'.arg
            stored == ItemKeyS(X) \in DOMAIN ledger
            n == last'.id
            key == ReviewKey(GeneratedID(S_Review, n))
        IN  /\ ~stored => /\ last'.err # NoErr
                          /\ ledger' = ledger
                          /\ last'.fault = "none" => last'.err = "NotFound"
            /\ (stored /\ last'.fault = "none") =>
                  /\ last'.err = NoErr
                  /\ n > maxRevID
                  /\ key \notin DOMAIN ledger
                  /\ key \in DOMAIN ledger'
                  /\ StoredReview(ledger', n).ID = GeneratedID(S_Review, n)
                  /\ StoredReview(ledger', n).CTIDataID = X
                  /\ \A r \in StoredReviews(ledger) :
                        r.ID # StoredReview(ledger', n).ID
                  /\ \A m \in 1..maxRevID :
                        GeneratedID(S_Review, m) # GeneratedID(S_Review, n)]_vars

\* A second review has been stored, after a first one.
C7_Witness ==
    /\ last.op = "AddReviewData" /\ last.err = NoErr /\ last.id = 2
    /\ ReviewKey(GeneratedID(S_Review, 1)) \in DOMAIN ledger
    /\ ReviewKey(GeneratedID(S_Review, 2)) \in DOMAIN ledger

\* The account the ledger holds for an identity.
StoredAccount(world, c) == UnmarshalUser(world[UserKey(c)])

\* C8: GetCTIItemsFilteredBySubscriptionLevel returns exactly the stored
\* items whose Level is at most the Subscribed of the caller's account (0 for
\* an account the call created), after a raise of Subscribed as before it.
C8_FilterReturnsVisibleItems ==
    (last.op = "GetCTIItemsFilteredBySubscriptionLevel" /\ last.err = NoErr)
        => Elems(last.ret) =
             {i \in StoredItems(ledger) :
                 i.Level <= StoredAccount(ledger, last.caller).Subscribed}

\* The record GetUserData creates for an identity that has none.
ZeroAccount(c) ==
    [ID |-> c, UserLevel |-> 0, UploadCount |-> 0, Points |-> 0, Subscribed |-> 0,
     Balance |-> 0]

\* C9: a GetUserData that succeeds for an identity with no account returns
\* the zero-valued record of that identity and stores it under the identity's
\* key; a second GetUserData, called next, returns the same record and writes
\* nothing.
C9_FirstReadCreatesZeroAccount ==
    [][(/\ last'.op = "GetUserData" /\ last'.err = NoErr
        /\ UserKey(last'.caller) \notin DOMAIN ledger) =>
        LET c == last'.caller
            second == GetUserData(ledger', c, "none")
        IN  /\ last'.ret = ZeroAccount(c)
            /\ UserKey(c) \in DOMAIN ledger'
            /\ StoredAccount(ledger', c) = ZeroAccount(c)
            /\ \A k \in DOMAIN ledger : k \in DOMAIN ledger' /\ ledger'[k] = ledger[k]
            /\ second.err = NoErr
            /\ second.ret = last'.ret
            /\ Commit(ledger', second) = ledger']_vars

\* GetUserData has just created the account of its caller.
C9_Witness ==
    /\ last.op = "GetUserData" /\ last.err = NoErr
    /\ last.wrote = {UserKey(last.caller)}
    /\ StoredAccount(ledger, last.caller) = ZeroAccount(last.caller)

\* C10: UpdateCTIItem on an ID under which no item is stored fails and leaves
\* the whole ledger as it was, with NotFound when its identity and ledger
\* calls succeed.
C10_UpdateOfMissingItem ==
    [][(last'.op = "UpdateCTIItem" /\ ItemKeyS(last'.arg.id) \notin DOMAIN ledger)
          => /\ last'.err # NoErr
             /\ last'.wrote = {}
             /\ ledger' = ledger
             /\ last'.fault = "none" => last'.err = "NotFound"]_vars

\* UpdateCTIItem has returned NotFound on a ledger that holds other records.
C10_Witness ==
    /\ last.op = "UpdateCTIItem" /\ last.err = "NotFound"
    /\ ItemKeyS(last.arg.id) \notin DOMAIN ledger
    /\ DOMAIN ledger # {}

\* The world state without one key.
Without(world, key) == [k \in DOMAIN world \ {key} |-> world[k]]

\* C11: an UpdateCTIItem that finds the item and whose calls succeed stores,
\* under the item's key, a record that has the supplied fields, the caller of
\* the update as Uploader and the given id as ID; every other key of the
\* ledger (the other items, both counters, accounts, reviews) keeps its value.
C11_UpdateReplacesRecordOnly ==
    [][(/\ last'.op = "UpdateCTIItem" /\ last'.fault = "none"
        /\ ItemKeyS(last'.arg.id) \in DOMAIN ledger) =>
        LET id == last'.arg.id
            a == last'.arg.a
            key == ItemKeyS(id)
        IN  /\ last'.err = NoErr
            /\ key \in DOMAIN ledger'
            /\ UnmarshalCTI(ledger'[key]) =
                  [ID |-> id, Name |-> a.name, Uploader |-> last'.caller,
                   Timestamp |-> a.timestamp, CID |-> a.cid,
                   EncryptKey |-> a.encryptKey, Points |-> a.points,
                   Level |-> a.level]
            /\ Without(ledger', key) = Without(ledger, key)
            /\ ItemCounter(ledger') = ItemCounter(ledger)
            /\ ReviewCounter(ledger') = ReviewCounter(ledger)]_vars

\* B has updated the item that A created, on a ledger that holds a review,
\* an account and both counters.
C11_Witness ==
    /\ last.op = "UpdateCTIItem" /\ last.err = NoErr /\ last.caller = IdB
    /\ last.arg.id = Itoa(1) /\ maxItemID = 1
    /\ UnmarshalCTI(ledger[ItemKeyD(1)]).Uploader = IdB
    /\ UnmarshalCTI(ledger[ItemKeyD(1)]).Level = 1
    /\ StoredReviewKeys(ledger) # {}
    /\ UserKey(IdB) \in DOMAIN ledger
    /\ ReviewCounter(ledger) = 1 /\ ItemCounter(ledger) = 1

\* C12: UpdateUserData of a caller that has no account fails, with NotFound
\* when its identity and ledger calls succeed, and creates no record; for a
\* caller that has one it stores the old record with UploadCount, Points,
\* Subscribed and Balance set to the supplied values, its ID (the caller's
\* identity) and UserLevel kept, and no other key changed.
C12_UpdateAccountOverwritesFour ==
    [][last'.op = "UpdateUserData" =>
        LET c == last'.caller
            a == last'.arg
            key == UserKey(c)
        IN  /\ key \notin DOMAIN ledger =>
                  /\ last'.err # NoErr
                  /\ ledger' = ledger
                  /\ key \notin DOMAIN ledger'
                  /\ last'.fault = "none" => last'.err = "NotFound"
            /\ (key \in DOMAIN ledger /\ last'.fault = "none") =>
                  /\ last'.err = NoErr
                  /\ StoredAccount(ledger', c) =
                        [ID |-> c, UserLevel |-> StoredAccount(ledger, c).UserLevel,
                         UploadCount |-> a.uploadCount, Points |-> a.points,
                         Subscribed |-> a.subscribed, Balance |-> a.balance]
                  /\ StoredAccount(ledger, c).ID = c
                  /\ Without(ledger', key) = Without(ledger, key)]_vars

\* UpdateUserData has overwritten the four fields of B's account while A has
\* an account of its own.
C12_Witness ==
    /\ last.op = "UpdateUserData" /\ last.err = NoErr /\ last.caller = IdB
    /\ last.wrote = {UserKey(IdB)}
    /\ StoredAccount(ledger, IdB).UploadCount = 4
    /\ StoredAccount(ledger, IdB).Points = 2
    /\ StoredAccount(ledger, IdB).Subscribed = 1
    /\ StoredAccount(ledger, IdB).Balance = 3
    /\ UserKey(IdA) \in DOMAIN ledger

\* C13: a DeleteCTIItemByID that succeeds leaves a ledger on which GetCTIItem
\* of that ID returns NotFound and GetReviewDataByCTIDataID of that ID returns
\* what it returned before; and no later step brings the item back or loses
\* one of its reviews.  (AddCTIItem assigns 1, 2, ... in turn, so an ID at
\* most maxItemID with no item stored is the ID of a deleted item.)
C13_DeletedItemStaysDeleted ==
    [][/\ (last'.op = "DeleteCTIItemByID" /\ last'.err = NoErr) =>
            LET id == last'.arg IN
            /\ GetCTIItem(ledger', Atoi(id).val, "none").err = "NotFound"
            /\ GetReviewDataByCTIDataID(ledger', id, "none").ret =
                  GetReviewDataByCTIDataID(ledger, id, "none").ret
       /\ \A n \in 1..maxItemID :
            ItemKeyD(n) \notin DOMAIN ledger =>
                /\ GetCTIItem(ledger', n, "none").err = "NotFound"
                /\ ReviewsOf(ledger, Itoa(n)) \subseteq
                      Elems(GetReviewDataByCTIDataID(ledger', Itoa(n), "none").ret)
                /\ (last'.op = "GetCTIItem" /\ last'.arg = n /\ last'.fault = "none")
                      => last'.err = "NotFound"]_vars

\* C14: DeleteCTIItemByID of an ID under which no item is stored fails, with
\* NotFound when its ledger read succeeds, and changes nothing; of a stored
\* item it removes that item's key and no other, and the same call made again
\* on the resulting ledger returns NotFound.
C14_DeleteNeedsItem ==
    [][last'.op = "DeleteCTIItemByID" =>
        LET id == last'.arg
            key == ItemKeyS(id)
        IN  /\ key \notin DOMAIN ledger =>
                  /\ last'.err # NoErr
                  /\ last'.wrote = {}
                  /\ ledger' = ledger
                  /\ last'.fault = "none" => last'.err = "NotFound"
            /\ (key \in DOMAIN ledger /\ last'.fault = "none") =>
                  /\ last'.err = NoErr
                  /\ last'.wrote = {key}
                  /\ ledger' = Without(ledger, key)
                  /\ DeleteCTIItemByID(ledger', id, "none").err = "NotFound"]_vars

\* DeleteCTIItemByID has returned NotFound for item 1, deleted earlier, on a
\* ledger that still holds item 2.
C14_Witness ==
    /\ last.op = "DeleteCTIItemByID" /\ last.err = "NotFound"
    /\ last.arg = Itoa(1) /\ maxItemID = 2
    /\ ItemKeyD(1) \notin DOMAIN ledger
    /\ ItemKeyD(2) \in DOMAIN ledger

\* C15: GetReviewDataByCTIDataID of an item ID X returns the reviews that
\* GetAllReviewData returns whose CTIDataID is X, in the same order, and these
\* are exactly the stored reviews of X, each one once.
C15_ReviewsOfItemAreFiltered ==
    (last.op = "GetReviewDataByCTIDataID" /\ last.err = NoErr) =>
        LET X == last.arg
            all == GetAllReviewData(ledger, "none").ret
        IN  /\ last.ret = SelectSeq(all, LAMBDA r : r.CTIDataID = X)
            /\ Elems(last.ret) = ReviewsOf(ledger, X)
            /\ Len(last.ret) = Cardinality(ReviewsOf(ledger, X))

\* The reviews of one item have been listed while the ledger holds reviews
\* of two items.
C15_Witness ==
    /\ last.op = "GetReviewDataByCTIDataID" /\ last.err = NoErr
    /\ Len(last.ret) = 1
    /\ ReviewsOf(ledger, Itoa(1)) # {}
    /\ ReviewsOf(ledger, Itoa(2)) # {}

\* Sequence values whose keys are compared with the range of the scan.
SequenceValues == {1, 2, 9, 10, 99, 100, 999999, 1000000}

\* C16: GetAllReviewData returns exactly the stored review records, each one
\* once: the range of its scan holds the key of the review of every sequence
\* value, and holds neither the key of a counter, nor of an item, nor of an
\* account.
C16_ReviewScanIsFull ==
    /\ (last.op = "GetAllReviewData" /\ last.err = NoErr) =>
          /\ Elems(last.ret) = StoredReviews(ledger)
          /\ Len(last.ret) = Cardinality(StoredReviewKeys(ledger))
    /\ RangeKeys(ledger, Review_RangeStart, Review_RangeEnd) = StoredReviewKeys(ledger)
    /\ \A n \in SequenceValues \cup 1..MaxReviews :
          LET key == ReviewKey(GeneratedID(S_Review, n)) IN
          /\ ~LexLess(key, Review_RangeStart) /\ LexLess(key, Review_RangeEnd)
          /\ LexLess(ItemKeyD(n), Review_RangeStart)
    /\ \A key \in {K_latestID, K_latestID_Prefix(S_Review)} \cup
                   {UserKey(c) : c \in Identities} :
          LexLess(key, Review_RangeStart) \/ ~LexLess(key, Review_RangeEnd)

\* GetAllReviewData has returned two reviews from a ledger that also holds
\* an item and both counters.
C16_Witness ==
    /\ last.op = "GetAllReviewData" /\ last.err = NoErr
    /\ Len(last.ret) = 2
    /\ StoredItemKeys(ledger) # {}
    /\ K_latestID \in DOMAIN ledger
    /\ K_latestID_Prefix(S_Review) \in DOMAIN ledger

\* C17: every review record the ledger holds is held unchanged, under the
\* same key, after every step: after AddReviewData, after DeleteCTIItemByID
\* and UpdateCTIItem of the reviewed item, after AddCTIItem and after the
\* account functions.
C17_ReviewsAreImmutable ==
    [][\A k \in StoredReviewKeys(ledger) :
          k \in DOMAIN ledger' /\ ledger'[k] = ledger[k]]_vars

\* The first review is still stored after its item was deleted, a second
\* item was added and reviewed, and the uploader's account was created and
\* updated.
C17_Witness ==
    /\ last.op = "UpdateUserData" /\ last.err = NoErr
    /\ ItemKeyD(1) \notin DOMAIN ledger
    /\ ItemKeyD(2) \in DOMAIN ledger
    /\ StoredReview(ledger, 1) = StoredReview(PopulatedLedger, 1)
    /\ StoredReview(ledger, 1).CTIDataID = Itoa(1)
    /\ ReviewKey(GeneratedID(S_Review, 2)) \in DOMAIN ledger
    /\ StoredReview(ledger, 2).CTIDataID = Itoa(2)

\* The part of an item key after "CTI_".
ItemKeySuffix(k) == SubSeq(k, Len(S_CTI) + 1, Len(k))

Replay(world, o) ==
    CASE o.op = "AddCTIItem" -> AddCTIItem(world, o.caller, o.arg, o.fault)
      [] o.op = "UpdateCTIItem" ->
            UpdateCTIItem(world, o.caller, o.arg.id, o.arg.a, o.fault)
      [] o.op = "GetCTIItem" -> GetCTIItem(world, o.arg, o.fault)
      [] o.op = "DeleteCTIItemByID" -> DeleteCTIItemByID(world, o.arg, o.fault)
      [] o.op = "AddUserData" -> AddUserData(world, o.caller, o.arg, o.fault)
      [] o.op = "GetUserDataOld" -> GetUserDataOld(world, o.arg, o.fault)
      [] o.op = "GetUserData" -> GetUserData(world, o.caller, o.fault)
      [] o.op = "UpdateUserData" -> UpdateUserData(world, o.caller, o.arg, o.fault)
      [] o.op = "AddReviewData" ->
            AddReviewData(world, o.caller, o.arg, CHOOSE a \in ReviewArgs : TRUE,
                          o.fault)
      [] o.op = "GetCTIItemsFilteredBySubscriptionLevel" ->
            GetCTIItemsFilteredBySubscriptionLevel(world, o.caller, o.fault)
      [] OTHER -> Fail(o.err, {}, EmptyWrites)

\* C19: an invocation that returns NotFound, or that fails because the
\* identity of its caller cannot be resolved, leaves every key of the ledger
\* as it was, the review counter included, and has asked for no write and no
\* delete before it failed.
C19_FailedCallsChangeNothing ==
    [][last'.err \in {"NotFound", "IdentityUnavailable"} =>
          /\ ledger' = ledger
          /\ last'.wrote = {}
          /\ ReviewCounter(ledger') = ReviewCounter(ledger)
          /\ Replay(ledger, last').err = last'.err
          /\ Replay(ledger, last').ws = EmptyWrites
          /\ Replay(ledger, last').del = {}]_vars

\* AddReviewData has returned NotFound for a deleted item, on a ledger whose
\* review counter stands at 1.
C19_Witness ==
    /\ last.op = "AddReviewData" /\ last.err = "NotFound"
    /\ ItemKeyS(last.arg) \notin DOMAIN ledger
    /\ ReviewCounter(ledger) = 1
    /\ ReviewKey(GeneratedID(S_Review, 1)) \in DOMAIN ledger
    /\ ReviewKey(GeneratedID(S_Review, 2)) \notin DOMAIN ledger

\* The account keys the ledger holds.
StoredAccountKeys(world) ==
    {k \in DOMAIN world :
        Len(k) >= Len(S_UserData) /\ SubSeq(k, 1, Len(S_UserData)) = S_UserData}

\* C20: a step leaves the account of every identity other than its caller as
\* it was, present or absent; the only account key it writes is the key of
\* its caller; and every account key holds the record of the identity the
\* key names, so that no identity has two records.
C20_AccountsAreIsolated ==
    [][/\ \A c \in Identities \ {last'.caller} :
            /\ UserKey(c) \in DOMAIN ledger <=> UserKey(c) \in DOMAIN ledger'
            /\ UserKey(c) \in DOMAIN ledger => ledger'[UserKey(c)] = ledger[UserKey(c)]
       /\ \A k \in StoredAccountKeys(ledger') \cup StoredAccountKeys(ledger) :
            (k \notin DOMAIN ledger \/ k \notin DOMAIN ledger' \/ ledger'[k] # ledger[k])
                => k = UserKey(last'.caller)
       /\ last'.wrote \cap (StoredAccountKeys(ledger') \cup StoredAccountKeys(ledger))
            \subseteq {UserKey(last'.caller)}
       /\ \A k \in StoredAccountKeys(ledger') :
            /\ k = UserKey(UnmarshalUser(ledger'[k]).ID)
            /\ UnmarshalUser(ledger'[k]).ID \in Identities
       /\ Cardinality(StoredAccountKeys(ledger')) <= Cardinality(Identities)]_vars

\* A has overwritten its own account while B's account holds other values.
C20_Witness ==
    /\ last.op \in {"AddUserData", "UpdateUserData"} /\ last.err = NoErr
    /\ last.caller = IdA
    /\ last.wrote = {UserKey(IdA)}
    /\ UserKey(IdB) \in DOMAIN ledger
    /\ StoredAccount(ledger, IdA).Balance = 0
    /\ StoredAccount(ledger, IdB).Balance = 3
    /\ StoredItemKeys(ledger) # {}

=============================================================================
